---- MODULE Spec2Model ----
(***************************************************************************)
(* update-assets.js: remap of asset taxonomy terms from a source to a      *)
(* target Kontent.ai environment.  main() fetches assets and taxonomies of *)
(* both environments, picks one element id per environment, builds the     *)
(* term id map by codename, builds the report rows (each with its update   *)
(* payload), writes the HTML report, asks the operator, and on "y" PUTs    *)
(* every row's payload.                                                    *)
(***************************************************************************)
EXTENDS Integers, Sequences, FiniteSets, TLC

VARIABLES
  pc,                 \* position of main()
  exitCode,           \* process exit code, NoExit while running
  fetchLog,           \* GET requests issued so far, in order: [request, ok]
  assetsSource,       \* main(): const assetsSource
  taxonomySourceRaw,  \* main(): const taxonomySourceRaw
  assetsTarget,       \* main(): const assetsTarget
  taxonomyTargetRaw,  \* main(): const taxonomyTargetRaw
  OLD_ELEMENT_ID,     \* module-level let OLD_ELEMENT_ID
  NEW_ELEMENT_ID,     \* module-level let NEW_ELEMENT_ID
  sourceTerms,        \* main(): const sourceTerms
  targetTerms,        \* main(): const targetTerms
  termIdMap,          \* main(): const termIdMap (a function on the mapped ids)
  reportRows,         \* main(): const reportRows
  warnings,           \* console.warn lines of the remap loop, in order
  reportFile,         \* Results/asset-taxonomy-update-report.html: [written, rows]
  answer,             \* operator's answer to rl.question, NoAnswer before
  putLog,             \* PUT requests issued so far: [assetId, body, ok]
  console             \* console.log / console.error lines other than the warnings

vars == << pc, exitCode, fetchLog, assetsSource,
           taxonomySourceRaw, assetsTarget, taxonomyTargetRaw, OLD_ELEMENT_ID,
           NEW_ELEMENT_ID, sourceTerms, targetTerms, termIdMap, reportRows,
           warnings, reportFile, answer, putLog, console >>

----------------------------------------------------------------------------
(* Bounds of the explored inputs *)

MaxTerms == 2       \* taxonomy terms of the target environment
MaxValues == 2      \* term references in one element value
MaxSourceTreeTerms == 2   \* terms of a source taxonomy tree (SpecTermTrees)
MaxTargetTreeTerms == 3   \* terms of a target taxonomy tree (SpecTermTrees)

----------------------------------------------------------------------------
(* JavaScript values *)

\* undefined / null of an id or codename position: the falsy string
Undefined == ""

Falsy(x) == x = Undefined

NoExit == -1
\* The report file before it is written
NoReport == [ written |-> FALSE, rows |-> << >> ]
NoAnswer == "<none>"

\* Array.prototype.find over the results of its callback: the index of the first
\* element the callback accepts (0: none, find returns undefined)
RECURSIVE FindIndexFrom(_, _)
FindIndexFrom(accepted, i) ==
  IF i > Len(accepted) THEN 0
  ELSE IF accepted[i] THEN i
  ELSE FindIndexFrom(accepted, i + 1)

FindIndex(accepted) == FindIndexFrom(accepted, 1)

\* Array.prototype.flatMap-like concatenation of a sequence of sequences
RECURSIVE Concat(_)
Concat(seqs) ==
  IF seqs = << >> THEN << >> ELSE Head(seqs) \o Concat(Tail(seqs))

Range(seq) == { seq[i] : i \in 1..Len(seq) }

----------------------------------------------------------------------------
(* Input data: what the Management API can return *)

SourceTermIds == << "s1", "s2", "s3", "s4" >>
TargetTermIds == << "t1", "t2", "t3", "t4" >>
TermCodenames == << "red", "blue", "green", "grey" >>
TermNames == [ red |-> "Red", blue |-> "Blue", green |-> "Green", grey |-> "Grey" ]
AssetCodenames == { "a", "b" }
ElementIds == { "e1", "e2" }

Term(id, codename, children) ==
  [ id |-> id, codename |-> codename, name |-> TermNames[codename], terms |-> children ]

\* One taxonomy group holding the terms of `flat`, all at the top level
FlatGroups(flat) == << [ codename |-> "group", terms |-> flat ] >>

\* One taxonomy group holding the terms of `flat` as a chain: each term the only
\* child of the one before it
RECURSIVE Chain(_)
Chain(flat) ==
  IF flat = << >> THEN << >>
  ELSE << [ Head(flat) EXCEPT !.terms = Chain(Tail(flat)) ] >>

ChainGroups(flat) == << [ codename |-> "group", terms |-> Chain(flat) ] >>

\* Source environment: two terms side by side in one group
SourceFlat ==
  << Term(SourceTermIds[1], TermCodenames[1], << >>),
     Term(SourceTermIds[2], TermCodenames[2], << >>) >>

SourceTaxonomies == { FlatGroups(SourceFlat) }

\* Target environment: up to MaxTerms terms, the j-th with id TargetTermIds[j], each
\* with the codename of either source term (so a source codename can be missing from
\* the target, or occur twice), nested as a chain
TargetFlats ==
  UNION { { [ j \in 1..n |-> Term(TargetTermIds[j], cn[j], << >>) ] :
            cn \in [ 1..n -> { SourceFlat[i].codename : i \in 1..Len(SourceFlat) } ] } :
          n \in 0..MaxTerms }

TargetTaxonomies == { ChainGroups(f) : f \in TargetFlats }

\* Element values of a source asset: the first n source term ids
SourceValues ==
  { [ i \in 1..n |-> [ id |-> SourceTermIds[i] ] ] : n \in 0..MaxValues }

\* Two different element ids, in order
ElementIdPairs == { p \in ElementIds \X ElementIds : p[1] # p[2] }

Element(eid, value) == [ element |-> [ id |-> eid ], value |-> value ]

\* Elements of a source asset: no element, the element e1 with any of the values,
\* or e1 with the longest value followed by e2 carrying the first source term
SourceElementLists ==
  { << >> }
  \cup { << Element("e1", v) >> : v \in SourceValues }
  \cup { << Element("e1", v), Element("e2", << [ id |-> SourceTermIds[1] ] >>) >> :
         v \in { w \in SourceValues : Len(w) = MaxValues } }

\* Elements of a target asset: no element, the element e1, or both elements in
\* either order, with the values the restore left behind
TargetElementLists ==
  { << >> }
  \cup { << Element("e1", << >>) >> }
  \cup { << Element(p[1], << >>), Element(p[2], << [ id |-> TargetTermIds[1] ] >>) >> :
         p \in ElementIdPairs }

Asset(env, codename, elements) ==
  [ id |-> env \o "-" \o codename, codename |-> codename,
    url |-> "https://assets/" \o env \o "/" \o codename, elements |-> elements ]

\* The codenames of the assets of one environment, in list order: asset codenames
\* are unique within an environment
CodenameLists ==
  UNION { { cs \in [ 1..n -> AssetCodenames ] :
            \A i, j \in 1..n : i # j => cs[i] # cs[j] } :
          n \in 0..Cardinality(AssetCodenames) }

AssetLists(env, elementLists) ==
  UNION { { [ i \in 1..Len(cs) |-> Asset(env, cs[i], els[i]) ] :
            els \in [ 1..Len(cs) -> elementLists ] } : cs \in CodenameLists }

SourceAssetLists == AssetLists("src", SourceElementLists)

TargetAssetLists == AssetLists("tgt", TargetElementLists)

\* A const of main() before its assignment
NoData == << >>

Init ==
  /\ pc = "fetchSourceAssets"
  /\ exitCode = NoExit
  /\ fetchLog = << >>
  /\ assetsSource = NoData
  /\ taxonomySourceRaw = NoData
  /\ assetsTarget = NoData
  /\ taxonomyTargetRaw = NoData
  /\ OLD_ELEMENT_ID = Undefined
  /\ NEW_ELEMENT_ID = Undefined
  /\ sourceTerms = << >>
  /\ targetTerms = << >>
  /\ termIdMap = << >>
  /\ reportRows = << >>
  /\ warnings = << >>
  /\ reportFile = NoReport
  /\ answer = NoAnswer
  /\ putLog = << >>
  /\ console = << >>

----------------------------------------------------------------------------
(* Pure helpers of update-assets.js *)

\* flattenTerms: depth-first, a term before its children, groups in order
RECURSIVE recurse(_)
recurse(terms) ==
  IF terms = << >> THEN << >>
  ELSE << Head(terms) >> \o recurse(Head(terms).terms) \o recurse(Tail(terms))

flattenTerms(taxonomyGroups) ==
  Concat([ g \in 1..Len(taxonomyGroups) |-> recurse(taxonomyGroups[g].terms) ])

\* getElementIdFromAsset, taking the last element's id instead of the first
getElementIdFromAsset_Last(asset) ==
  IF asset.elements = << >> THEN Undefined
  ELSE asset.elements[Len(asset.elements)].element.id

\* getElementIdFromAsset: id of the first element that has a truthy element id
getElementIdFromAsset(asset) ==
  LET i == FindIndex([ k \in 1..Len(asset.elements) |-> ~Falsy(asset.elements[k].element.id) ])
  IN IF i = 0 THEN Undefined ELSE asset.elements[i].element.id

\* Map.prototype.set
MapSet(map, k, v) ==
  [ x \in DOMAIN map \cup { k } |-> IF x = k THEN v ELSE map[x] ]

\* Map.prototype.get: undefined for a key that is not set
MapGet(map, k) == IF k \in DOMAIN map THEN map[k] ELSE Undefined

\* A codename with its letters in lower case, on the codenames of the term trees
FoldCase(codename) == IF codename = "Red" THEN "red" ELSE codename

RECURSIVE BuildTermIdMapFrom(_, _, _)

\* BuildTermIdMapFrom, matching the codenames without regard to case
BuildTermIdMapFrom_FoldsCase(sTerms, tTerms, map) ==
  IF sTerms = << >> THEN map
  ELSE LET sTerm == Head(sTerms)
           t == FindIndex([ k \in 1..Len(tTerms) |->
                  FoldCase(tTerms[k].codename) = FoldCase(sTerm.codename) ])
       IN BuildTermIdMapFrom(Tail(sTerms), tTerms,
            IF t # 0 THEN MapSet(map, sTerm.id, tTerms[t].id) ELSE map)

\* The loop building termIdMap: each source term, in order, is set to the id of the
\* first target term of the same codename, when there is one
BuildTermIdMapFrom(sTerms, tTerms, map) ==
  IF sTerms = << >> THEN map
  ELSE LET sTerm == Head(sTerms)
           t == FindIndex([ k \in 1..Len(tTerms) |-> tTerms[k].codename = sTerm.codename ])
       IN BuildTermIdMapFrom(Tail(sTerms), tTerms,
            IF t # 0 THEN MapSet(map, sTerm.id, tTerms[t].id) ELSE map)

BuildTermIdMap(sTerms, tTerms) == BuildTermIdMapFrom(sTerms, tTerms, << >>)

\* RemapValue, keeping the source id of a term that has no mapping
RemapValue_KeepsUnmapped(v, map) ==
  IF Falsy(v.id) THEN << >>
  ELSE IF Falsy(MapGet(map, v.id)) THEN << [ id |-> v.id ] >>
  ELSE << [ id |-> MapGet(map, v.id) ] >>

\* The .map callback of newValues: no entry (null, filtered out) for a value without
\* id or without a truthy mapping, else the entry {id: newId}
RemapValue(v, map) ==
  IF Falsy(v.id) THEN << >>
  ELSE IF Falsy(MapGet(map, v.id)) THEN << >>
  ELSE << [ id |-> MapGet(map, v.id) ] >>

\* newValues: oldElement.value.map(...).filter(Boolean)
NewValues(value, map) ==
  Concat([ i \in 1..Len(value) |-> RemapValue(value[i], map) ])

\* The console.warn of the .map callback, one per unmapped term id
UnmappedWarnings(value, map, codename) ==
  Concat([ i \in 1..Len(value) |->
    IF ~Falsy(value[i].id) /\ Falsy(MapGet(map, value[i].id))
    THEN << [ kind |-> "unmapped term", id |-> value[i].id, codename |-> codename ] >>
    ELSE << >> ])

\* values.map(v => terms.find(t => t.id === v.id)?.name).filter(Boolean)
TaxonomyNames(value, terms) ==
  Concat([ i \in 1..Len(value) |->
    LET t == FindIndex([ k \in 1..Len(terms) |-> terms[k].id = value[i].id ])
    IN IF t = 0 THEN << >> ELSE << terms[t].name >> ])

\* elements.find(e => e.element.id === id) || {element: {id}, value: []}
ElementOrEmpty(asset, id) ==
  LET i == FindIndex([ k \in 1..Len(asset.elements) |-> asset.elements[k].element.id = id ])
  IN IF i = 0 THEN Element(id, << >>) ELSE asset.elements[i]

\* FindTargetAsset, pairing by position in the list: always the first target asset
FindTargetAsset_First(targets, sourceAsset) ==
  IF targets = << >> THEN 0 ELSE 1

\* assetsTarget.find(a => a.codename === sourceAsset.codename), as its index
FindTargetAsset(targets, sourceAsset) ==
  FindIndex([ k \in 1..Len(targets) |-> targets[k].codename = sourceAsset.codename ])

\* UpdatedAssetPayload, with the remapped element as the only element
UpdatedAssetPayload_OnlyRemapped(targetAsset, newElement, newId) ==
  [ targetAsset EXCEPT !.elements = << newElement >> ]

\* updatedAssetPayload: the target asset, its elements mapped so that each element
\* with the new element id is replaced by newElement
UpdatedAssetPayload(targetAsset, newElement, newId) ==
  [ targetAsset EXCEPT !.elements =
      [ i \in 1..Len(targetAsset.elements) |->
          IF targetAsset.elements[i].element.id = newId
          THEN newElement ELSE targetAsset.elements[i] ] ]

----------------------------------------------------------------------------
(* The remap loop of main(), lines 211-306 *)

\* The report row of one source asset paired with targetAsset, as the loop body
\* builds it once the old element is known to carry values
ReportRow(sourceAsset, targetAsset, oldId, newId, map, sTerms, tTerms) ==
  LET oldElement == ElementOrEmpty(sourceAsset, oldId)
      newValues == NewValues(oldElement.value, map)
      newElement == Element(newId, newValues)
      existingTargetOldTaxonomies == ElementOrEmpty(targetAsset, oldId).value
  IN [ sourceAsset |-> sourceAsset,
       targetAsset |-> targetAsset,
       sourceTaxonomyNames |-> TaxonomyNames(oldElement.value, sTerms),
       existingTargetTaxonomyNames |-> TaxonomyNames(existingTargetOldTaxonomies, tTerms),
       targetTaxonomyNamesPending |-> TaxonomyNames(newValues, tTerms),
       updatedAssetPayload |-> UpdatedAssetPayload(targetAsset, newElement, newId) ]

\* One iteration of the loop: the rows it pushes (none or one)
RowsOf(sourceAsset, targets, oldId, newId, map, sTerms, tTerms) ==
  LET t == FindTargetAsset(targets, sourceAsset)
  IN IF t = 0 THEN << >>
     ELSE IF ElementOrEmpty(sourceAsset, oldId).value = << >> THEN << >>
     ELSE << ReportRow(sourceAsset, targets[t], oldId, newId, map, sTerms, tTerms) >>

\* One iteration of the loop: the warnings it logs
WarningsOf(sourceAsset, targets, oldId, map) ==
  LET t == FindTargetAsset(targets, sourceAsset)
  IN IF t = 0
     THEN << [ kind |-> "no target asset", id |-> Undefined,
               codename |-> sourceAsset.codename ] >>
     ELSE UnmappedWarnings(ElementOrEmpty(sourceAsset, oldId).value, map,
                           sourceAsset.codename)

\* The pairs the loop works on: each source asset with the target asset that find
\* returns for it, when it returns one
Pairing(sources, targets) ==
  { << sources[i], targets[FindTargetAsset(targets, sources[i])] >> :
    i \in { k \in 1..Len(sources) : FindTargetAsset(targets, sources[k]) # 0 } }

\* for (const sourceAsset of assetsSource) { ... }
BuildReportRows(sources, targets, oldId, newId, map, sTerms, tTerms) ==
  Concat([ i \in 1..Len(sources) |->
    RowsOf(sources[i], targets, oldId, newId, map, sTerms, tTerms) ])

BuildWarnings(sources, targets, oldId, map) ==
  Concat([ i \in 1..Len(sources) |-> WarningsOf(sources[i], targets, oldId, map) ])

\* One <tr> of the report: the two asset cells and the three pill cells
RenderRow(row, newId, tTerms) ==
  [ sourceAsset |-> [ codename |-> row.sourceAsset.codename, url |-> row.sourceAsset.url ],
    sourceTaxonomies |-> row.sourceTaxonomyNames,
    targetAsset |-> [ codename |-> row.targetAsset.codename, url |-> row.targetAsset.url ],
    existing |-> TaxonomyNames(ElementOrEmpty(row.targetAsset, newId).value, tTerms),
    pending |-> row.targetTaxonomyNamesPending ]

RenderReport(rows, newId, tTerms) ==
  [ written |-> TRUE, rows |-> [ i \in 1..Len(rows) |-> RenderRow(rows[i], newId, tTerms) ] ]

\* String.prototype.toLowerCase on the answers the operator can give
Answers == { "y", "Y", "n", "yes" }

ToLowerCase(s) == IF s = "Y" THEN "y" ELSE s

----------------------------------------------------------------------------
(* main(), step by step *)

\* console.log / console.error line
Line(kind, detail) == [ kind |-> kind, detail |-> detail ]

\* main().catch: the error is logged and the process exits with code 1
Fatal(err) ==
  /\ console' = Append(console, Line("fatal", err))
  /\ pc' = "exited"
  /\ exitCode' = 1

\* fetchKontent: one GET; a network error or a non-ok status throws
FetchSourceAssets ==
  /\ pc = "fetchSourceAssets"
  /\ \E ok \in BOOLEAN :
       /\ fetchLog' = Append(fetchLog, [ request |-> "source assets", ok |-> ok ])
       /\ IF ok
          THEN /\ assetsSource' \in SourceAssetLists
               /\ pc' = "fetchSourceTaxonomies"
               /\ UNCHANGED << exitCode, console >>
          ELSE /\ Fatal("fetch failed")
               /\ UNCHANGED assetsSource
  /\ UNCHANGED << taxonomySourceRaw, assetsTarget, taxonomyTargetRaw, OLD_ELEMENT_ID,
                  NEW_ELEMENT_ID, sourceTerms, targetTerms, termIdMap, reportRows,
                  warnings, reportFile, answer, putLog >>

FetchSourceTaxonomies ==
  /\ pc = "fetchSourceTaxonomies"
  /\ \E ok \in BOOLEAN :
       /\ fetchLog' = Append(fetchLog, [ request |-> "source taxonomies", ok |-> ok ])
       /\ IF ok
          THEN /\ taxonomySourceRaw' \in SourceTaxonomies
               /\ pc' = "fetchTargetAssets"
               /\ UNCHANGED << exitCode, console >>
          ELSE /\ Fatal("fetch failed")
               /\ UNCHANGED taxonomySourceRaw
  /\ UNCHANGED << assetsSource, assetsTarget, taxonomyTargetRaw, OLD_ELEMENT_ID,
                  NEW_ELEMENT_ID, sourceTerms, targetTerms, termIdMap, reportRows,
                  warnings, reportFile, answer, putLog >>

\* FetchTargetAssets, swallowing the failure: an empty list stands in and main() goes on
FetchTargetAssets_Swallow ==
  /\ pc = "fetchTargetAssets"
  /\ \E ok \in BOOLEAN :
       /\ fetchLog' = Append(fetchLog, [ request |-> "target assets", ok |-> ok ])
       /\ assetsTarget' \in IF ok THEN TargetAssetLists ELSE { << >> }
       /\ pc' = "fetchTargetTaxonomies"
       /\ UNCHANGED << exitCode, console >>
  /\ UNCHANGED << assetsSource, taxonomySourceRaw, taxonomyTargetRaw, OLD_ELEMENT_ID,
                  NEW_ELEMENT_ID, sourceTerms, targetTerms, termIdMap, reportRows,
                  warnings, reportFile, answer, putLog >>

FetchTargetAssets ==
  /\ pc = "fetchTargetAssets"
  /\ \E ok \in BOOLEAN :
       /\ fetchLog' = Append(fetchLog, [ request |-> "target assets", ok |-> ok ])
       /\ IF ok
          THEN /\ assetsTarget' \in TargetAssetLists
               /\ pc' = "fetchTargetTaxonomies"
               /\ UNCHANGED << exitCode, console >>
          ELSE /\ Fatal("fetch failed")
               /\ UNCHANGED assetsTarget
  /\ UNCHANGED << assetsSource, taxonomySourceRaw, taxonomyTargetRaw, OLD_ELEMENT_ID,
                  NEW_ELEMENT_ID, sourceTerms, targetTerms, termIdMap, reportRows,
                  warnings, reportFile, answer, putLog >>

FetchTargetTaxonomies ==
  /\ pc = "fetchTargetTaxonomies"
  /\ \E ok \in BOOLEAN :
       /\ fetchLog' = Append(fetchLog, [ request |-> "target taxonomies", ok |-> ok ])
       /\ IF ok
          THEN /\ taxonomyTargetRaw' \in TargetTaxonomies
               /\ pc' = "extractElementIds"
               /\ UNCHANGED << exitCode, console >>
          ELSE /\ Fatal("fetch failed")
               /\ UNCHANGED taxonomyTargetRaw
  /\ UNCHANGED << assetsSource, taxonomySourceRaw, assetsTarget, OLD_ELEMENT_ID,
                  NEW_ELEMENT_ID, sourceTerms, targetTerms, termIdMap, reportRows,
                  warnings, reportFile, answer, putLog >>

\* Lines 182-195.  assetsSource[0] of an empty list is undefined and reading its
\* .elements throws a TypeError, which main().catch turns into exit code 1; when
\* either id is null the error is logged and process.exit(1) is called.
ExtractElementIds ==
  /\ pc = "extractElementIds"
  /\ IF assetsSource = << >>
     THEN /\ Fatal("TypeError")
          /\ UNCHANGED << OLD_ELEMENT_ID, NEW_ELEMENT_ID >>
     ELSE /\ OLD_ELEMENT_ID' = getElementIdFromAsset(assetsSource[1])
          /\ IF assetsTarget = << >>
             THEN /\ Fatal("TypeError")
                  /\ UNCHANGED NEW_ELEMENT_ID
             ELSE /\ NEW_ELEMENT_ID' = getElementIdFromAsset(assetsTarget[1])
                  /\ IF Falsy(OLD_ELEMENT_ID') \/ Falsy(NEW_ELEMENT_ID')
                     THEN /\ console' = Append(console,
                                          Line("error", "could not extract element IDs"))
                          /\ pc' = "exited"
                          /\ exitCode' = 1
                     ELSE /\ pc' = "remap"
                          /\ UNCHANGED << exitCode, console >>
  /\ UNCHANGED << fetchLog, assetsSource, taxonomySourceRaw, assetsTarget,
                  taxonomyTargetRaw, sourceTerms, targetTerms, termIdMap, reportRows,
                  warnings, reportFile, answer, putLog >>

\* Remap, throwing on a source asset that has no target asset
Remap_ThrowsOnUnmatched ==
  /\ pc = "remap"
  /\ IF \E i \in 1..Len(assetsSource) : FindTargetAsset(assetsTarget, assetsSource[i]) = 0
     THEN /\ Fatal("TypeError")
          /\ UNCHANGED << sourceTerms, targetTerms, termIdMap, reportRows, warnings >>
     ELSE /\ sourceTerms' = flattenTerms(taxonomySourceRaw)
          /\ targetTerms' = flattenTerms(taxonomyTargetRaw)
          /\ termIdMap' = BuildTermIdMap(sourceTerms', targetTerms')
          /\ reportRows' = BuildReportRows(assetsSource, assetsTarget, OLD_ELEMENT_ID,
                                           NEW_ELEMENT_ID, termIdMap', sourceTerms',
                                           targetTerms')
          /\ warnings' = BuildWarnings(assetsSource, assetsTarget, OLD_ELEMENT_ID,
                                       termIdMap')
          /\ pc' = "report"
          /\ UNCHANGED << exitCode, console >>
  /\ UNCHANGED << fetchLog, assetsSource, taxonomySourceRaw, assetsTarget,
                  taxonomyTargetRaw, OLD_ELEMENT_ID, NEW_ELEMENT_ID, reportFile, answer,
                  putLog >>

\* Lines 197-306: the flattened terms, the term id map and the report rows
Remap ==
  /\ pc = "remap"
  /\ sourceTerms' = flattenTerms(taxonomySourceRaw)
  /\ targetTerms' = flattenTerms(taxonomyTargetRaw)
  /\ termIdMap' = BuildTermIdMap(sourceTerms', targetTerms')
  /\ reportRows' = BuildReportRows(assetsSource, assetsTarget, OLD_ELEMENT_ID,
                                   NEW_ELEMENT_ID, termIdMap', sourceTerms', targetTerms')
  /\ warnings' = BuildWarnings(assetsSource, assetsTarget, OLD_ELEMENT_ID, termIdMap')
  /\ pc' = "report"
  /\ UNCHANGED << exitCode, fetchLog, assetsSource, taxonomySourceRaw, assetsTarget,
                  taxonomyTargetRaw, OLD_ELEMENT_ID, NEW_ELEMENT_ID, reportFile, answer,
                  putLog, console >>

\* Lines 308-431: mkdir, writeFile and open; any of them throwing is fatal
WriteReport ==
  /\ pc = "report"
  /\ \E ok \in BOOLEAN :
       IF ok
       THEN /\ reportFile' = RenderReport(reportRows, NEW_ELEMENT_ID, targetTerms)
            /\ console' = Append(console, Line("log", "HTML report generated"))
            /\ pc' = "prompt"
            /\ UNCHANGED exitCode
       ELSE /\ Fatal("report failed")
            /\ UNCHANGED reportFile
  /\ UNCHANGED << fetchLog, assetsSource, taxonomySourceRaw, assetsTarget,
                  taxonomyTargetRaw, OLD_ELEMENT_ID, NEW_ELEMENT_ID, sourceTerms,
                  targetTerms, termIdMap, reportRows, warnings, answer, putLog >>

\* Prompt, aborting only on "n": any other answer proceeds
Prompt_AbortOnlyOnN ==
  /\ pc = "prompt"
  /\ \E a \in Answers :
       /\ answer' = a
       /\ IF ToLowerCase(a) = "n"
          THEN /\ console' = Append(console, Line("log", "Aborted by user"))
               /\ pc' = "exited"
               /\ exitCode' = 0
          ELSE /\ pc' = "commit"
               /\ UNCHANGED << exitCode, console >>
  /\ UNCHANGED << fetchLog, assetsSource, taxonomySourceRaw, assetsTarget,
                  taxonomyTargetRaw, OLD_ELEMENT_ID, NEW_ELEMENT_ID, sourceTerms,
                  targetTerms, termIdMap, reportRows, warnings, reportFile, putLog >>

\* Lines 433-443: the question, and process.exit(0) unless the answer lowercases to "y"
Prompt ==
  /\ pc = "prompt"
  /\ \E a \in Answers :
       /\ answer' = a
       /\ IF ToLowerCase(a) # "y"
          THEN /\ console' = Append(console, Line("log", "Aborted by user"))
               /\ pc' = "exited"
               /\ exitCode' = 0
          ELSE /\ pc' = "commit"
               /\ UNCHANGED << exitCode, console >>
  /\ UNCHANGED << fetchLog, assetsSource, taxonomySourceRaw, assetsTarget,
                  taxonomyTargetRaw, OLD_ELEMENT_ID, NEW_ELEMENT_ID, sourceTerms,
                  targetTerms, termIdMap, reportRows, warnings, reportFile, putLog >>

\* UpdateAsset without the try/catch: a failed update rejects main()
UpdateAsset_NoCatch ==
  /\ pc = "commit"
  /\ Len(putLog) < Len(reportRows)
  /\ LET row == reportRows[Len(putLog) + 1]
     IN \E ok \in BOOLEAN :
          /\ putLog' = Append(putLog, [ assetId |-> row.targetAsset.id,
                                        body |-> row.updatedAssetPayload,
                                        ok |-> ok ])
          /\ IF ok
             THEN /\ console' = Append(console, Line("updated", row.sourceAsset.codename))
                  /\ UNCHANGED << pc, exitCode >>
             ELSE Fatal("update failed")
  /\ UNCHANGED << fetchLog, assetsSource, taxonomySourceRaw,
                  assetsTarget, taxonomyTargetRaw, OLD_ELEMENT_ID, NEW_ELEMENT_ID,
                  sourceTerms, targetTerms, termIdMap, reportRows, warnings,
                  reportFile, answer >>

\* UpdateAsset, sending the fetched target asset instead of the row's payload
UpdateAsset_SendsTargetAsset ==
  /\ pc = "commit"
  /\ Len(putLog) < Len(reportRows)
  /\ LET row == reportRows[Len(putLog) + 1]
     IN \E ok \in BOOLEAN :
          /\ putLog' = Append(putLog, [ assetId |-> row.targetAsset.id,
                                        body |-> row.targetAsset,
                                        ok |-> ok ])
          /\ console' = Append(console,
                          Line(IF ok THEN "updated" ELSE "failed to update",
                               row.sourceAsset.codename))
  /\ UNCHANGED << pc, exitCode, fetchLog, assetsSource, taxonomySourceRaw,
                  assetsTarget, taxonomyTargetRaw, OLD_ELEMENT_ID, NEW_ELEMENT_ID,
                  sourceTerms, targetTerms, termIdMap, reportRows, warnings,
                  reportFile, answer >>

\* Lines 446-462, one iteration: updateAsset for the next row inside try/catch;
\* the row's outcome is logged and the loop goes on either way
UpdateAsset ==
  /\ pc = "commit"
  /\ Len(putLog) < Len(reportRows)
  /\ LET row == reportRows[Len(putLog) + 1]
     IN \E ok \in BOOLEAN :
          /\ putLog' = Append(putLog, [ assetId |-> row.targetAsset.id,
                                        body |-> row.updatedAssetPayload,
                                        ok |-> ok ])
          /\ console' = Append(console,
                          Line(IF ok THEN "updated" ELSE "failed to update",
                               row.sourceAsset.codename))
  /\ UNCHANGED << pc, exitCode, fetchLog, assetsSource, taxonomySourceRaw,
                  assetsTarget, taxonomyTargetRaw, OLD_ELEMENT_ID, NEW_ELEMENT_ID,
                  sourceTerms, targetTerms, termIdMap, reportRows, warnings,
                  reportFile, answer >>

\* The loop is over: main() resolves and the process ends with code 0
Finish ==
  /\ pc = "commit"
  /\ Len(putLog) = Len(reportRows)
  /\ pc' = "exited"
  /\ exitCode' = 0
  /\ UNCHANGED << fetchLog, assetsSource, taxonomySourceRaw, assetsTarget,
                  taxonomyTargetRaw, OLD_ELEMENT_ID, NEW_ELEMENT_ID, sourceTerms,
                  targetTerms, termIdMap, reportRows, warnings, reportFile, answer,
                  putLog, console >>

Next ==
  \/ FetchSourceAssets
  \/ FetchSourceTaxonomies
  \/ FetchTargetAssets
  \/ FetchTargetTaxonomies
  \/ ExtractElementIds
  \/ Remap
  \/ WriteReport
  \/ Prompt
  \/ UpdateAsset
  \/ Finish

Spec == Init /\ [][Next]_vars

----------------------------------------------------------------------------
(* The term index on taxonomy trees of every shape: main() from the point where *)
(* the four fetches have succeeded, over a fixed pair of assets                  *)

TreeCodenames == { "red", "Red", "blue" }

TreeNames == [ red |-> "Red", Red |-> "Red (old)", blue |-> "Blue" ]

TreeTerm(id, codename) ==
  [ id |-> id, codename |-> codename, name |-> TreeNames[codename], terms |-> << >> ]

\* The lists of up to max terms, the j-th with id ids[j], with any of the codenames
TreeFlats(ids, max) ==
  UNION { { [ j \in 1..n |-> TreeTerm(ids[j], cn[j]) ] : cn \in [ 1..n -> TreeCodenames ] } :
          n \in 0..max }

\* One group: the second term is the child of the first, the others follow the first
ForkGroups(flat) ==
  IF Len(flat) < 2 THEN FlatGroups(flat)
  ELSE << [ codename |-> "group",
            terms |-> << [ flat[1] EXCEPT !.terms = << flat[2] >> ] >>
                      \o SubSeq(flat, 3, Len(flat)) ] >>

\* Two groups: the first term in the first group, the others in the second
SplitGroups(flat) ==
  IF flat = << >> THEN << >>
  ELSE << [ codename |-> "group", terms |-> << Head(flat) >> ],
          [ codename |-> "other", terms |-> Tail(flat) ] >>

\* The taxonomies holding the terms of `flat`, each with `flat` as its depth-first order
TreeShapes(flat) ==
  { FlatGroups(flat), ChainGroups(flat), ForkGroups(flat), SplitGroups(flat) }

SourceTrees == UNION { TreeShapes(f) : f \in TreeFlats(SourceTermIds, MaxSourceTreeTerms) }

TargetTrees == UNION { TreeShapes(f) : f \in TreeFlats(TargetTermIds, MaxTargetTreeTerms) }

\* One source asset carrying the longest value, and its target asset
TreeSourceAssets ==
  << Asset("src", "a", << Element("e1", CHOOSE v \in SourceValues : Len(v) = MaxValues) >>) >>

TreeTargetAssets == << Asset("tgt", "a", << Element("e1", << >>) >>) >>

InitTermTrees ==
  /\ pc = "extractElementIds"
  /\ exitCode = NoExit
  /\ fetchLog = << [ request |-> "source assets", ok |-> TRUE ],
                   [ request |-> "source taxonomies", ok |-> TRUE ],
                   [ request |-> "target assets", ok |-> TRUE ],
                   [ request |-> "target taxonomies", ok |-> TRUE ] >>
  /\ assetsSource = TreeSourceAssets
  /\ taxonomySourceRaw \in SourceTrees
  /\ assetsTarget = TreeTargetAssets
  /\ taxonomyTargetRaw \in TargetTrees
  /\ OLD_ELEMENT_ID = Undefined
  /\ NEW_ELEMENT_ID = Undefined
  /\ sourceTerms = << >>
  /\ targetTerms = << >>
  /\ termIdMap = << >>
  /\ reportRows = << >>
  /\ warnings = << >>
  /\ reportFile = NoReport
  /\ answer = NoAnswer
  /\ putLog = << >>
  /\ console = << >>

NextTermTrees ==
  \/ ExtractElementIds
  \/ Remap
  \/ WriteReport
  \/ Prompt
  \/ UpdateAsset
  \/ Finish

SpecTermTrees == InitTermTrees /\ [][NextTermTrees]_vars

----------------------------------------------------------------------------
(* Properties *)

Affirmative == { "y", "Y" }

\* The remapped value list as the claims state it: the entries of `value` whose id
\* has an entry in `map`, in order, each replaced by the id it maps to
ExpectedRemap(value, map) ==
  LET Mapped(v) == v.id \in DOMAIN map
      kept == SelectSeq(value, Mapped)
  IN [ i \in 1..Len(kept) |-> [ id |-> map[kept[i].id] ] ]

\* The value list of the asset's element of that id, empty when it has none
ValueOf(asset, id) ==
  IF \E k \in 1..Len(asset.elements) : asset.elements[k].element.id = id
  THEN asset.elements[CHOOSE k \in 1..Len(asset.elements) :
                        asset.elements[k].element.id = id].value
  ELSE << >>

HasElement(asset, id) ==
  \E k \in 1..Len(asset.elements) : asset.elements[k].element.id = id

Rows == { reportRows[i] : i \in 1..Len(reportRows) }

\* The remap loop has run: main() is past it, or ended after it
RemapDone ==
  \/ pc \in { "report", "prompt", "commit" }
  \/ pc = "exited" /\ exitCode = 0
  \/ pc = "exited" /\ console # << >>
       /\ console[Len(console)] = Line("fatal", "report failed")

Answered == answer # NoAnswer

Confirmed == answer \in Affirmative

\* C1: no PUT is issued before the report is written and the operator has answered,
\* and only after an answer that is "y" in either case; after any other answer the
\* run has ended with exit code 0 and no PUT at all.
C1_ConfirmationGate ==
  /\ putLog # << >> => (reportFile.written /\ Answered /\ Confirmed)
  /\ (Answered /\ ~Confirmed) => (pc = "exited" /\ exitCode = 0 /\ putLog = << >>)

\* An upper-case "Y" was given and an update was issued
C1_Witness == answer = "Y" /\ putLog # << >>

\* C2: every PUT of the commit phase carries the payload stored in its report row and
\* goes to the id of that row's target asset; when the operator is asked and when the
\* commit phase has ended, the rows are the rows the remap loop built, payloads
\* included, and the report shows those rows.
C2_PreviewCommitConsistency ==
  /\ \A i \in 1..Len(putLog) :
       /\ i <= Len(reportRows)
       /\ putLog[i].body = reportRows[i].updatedAssetPayload
       /\ putLog[i].assetId = reportRows[i].targetAsset.id
       /\ reportFile.rows[i].targetAsset.codename = putLog[i].body.codename
       /\ reportFile.rows[i].pending = reportRows[i].targetTaxonomyNamesPending
  /\ (pc = "prompt" \/ (pc = "exited" /\ Confirmed)) =>
       /\ reportRows = BuildReportRows(assetsSource, assetsTarget, OLD_ELEMENT_ID,
                                       NEW_ELEMENT_ID, termIdMap, sourceTerms, targetTerms)
       /\ reportFile = RenderReport(reportRows, NEW_ELEMENT_ID, targetTerms)

\* Two rows were committed and the first payload differs from the fetched target asset
C2_Witness ==
  /\ Len(putLog) = 2
  /\ putLog[1].body # reportRows[1].targetAsset

\* C4: once the operator has confirmed, the updates attempted so far are the first
\* rows in row order, one attempt per row, each with its own logged outcome, whatever
\* the outcomes of the others; and the run ends only when every row was attempted.
C4_FailureIsolation ==
  /\ Len(putLog) <= Len(reportRows)
  /\ \A i \in 1..Len(putLog) :
       /\ putLog[i].assetId = reportRows[i].targetAsset.id
       /\ \E k \in 1..Len(console) :
            /\ console[k] = Line(IF putLog[i].ok THEN "updated" ELSE "failed to update",
                                 reportRows[i].sourceAsset.codename)
            /\ Cardinality({ l \in 1..Len(console) :
                               console[l].kind \in { "updated", "failed to update" }
                               /\ l <= k }) = i
  /\ Cardinality({ l \in 1..Len(console) :
                     console[l].kind \in { "updated", "failed to update" } }) = Len(putLog)
  /\ (pc = "exited" /\ Confirmed) => (Len(putLog) = Len(reportRows) /\ exitCode = 0)

\* The run ended after the first of two updates failed and the second succeeded
C4_Witness ==
  /\ pc = "exited"
  /\ Len(putLog) = 2
  /\ ~putLog[1].ok
  /\ putLog[2].ok

FetchFailed == \E i \in 1..Len(fetchLog) : ~fetchLog[i].ok

\* C7: a failed fetch is fatal: it is the last request of the run, no request is
\* issued twice, the run has ended with exit code 1, the report was not written,
\* the operator was not asked and no PUT was issued.
C7_FetchFailureFatal ==
  /\ \A i, j \in 1..Len(fetchLog) : i # j => fetchLog[i].request # fetchLog[j].request
  /\ FetchFailed =>
       /\ ~fetchLog[Len(fetchLog)].ok
       /\ \A i \in 1..(Len(fetchLog) - 1) : fetchLog[i].ok
       /\ pc = "exited"
       /\ exitCode = 1
       /\ ~reportFile.written
       /\ ~Answered
       /\ putLog = << >>

\* The fetch of the target assets failed after both source fetches succeeded
C7_Witness ==
  /\ Len(fetchLog) = 3
  /\ ~fetchLog[3].ok
  /\ pc = "exited"

\* Every element of the source asset has no element of its id on the target asset,
\* or a value list that remaps to the empty list
NoOpAsset(source, target) ==
  \A k \in 1..Len(source.elements) :
    \/ ~HasElement(target, source.elements[k].element.id)
    \/ ExpectedRemap(source.elements[k].value, termIdMap) = << >>

\* C3: no-op exclusion: a paired asset whose every element has no counterpart on the
\* target asset or remaps to an empty value list has no report row and gets no PUT.
C3_NoOpExclusion ==
  /\ \A r \in Rows : ~NoOpAsset(r.sourceAsset, r.targetAsset)
  /\ \A i \in 1..Len(putLog) :
       ~NoOpAsset(reportRows[i].sourceAsset, reportRows[i].targetAsset)

\* C5: unmapped term values are dropped, never fabricated: once the term id map is
\* built, the remapped list of every source element value is exactly the mapped
\* entries in order, and what a row's payload carries in the remapped element is that
\* list of the source's old element, holding target term ids only.
C5_UnmappedDropped ==
  /\ pc = "report" =>
       \A i \in 1..Len(assetsSource) : \A k \in 1..Len(assetsSource[i].elements) :
         NewValues(assetsSource[i].elements[k].value, termIdMap)
           = ExpectedRemap(assetsSource[i].elements[k].value, termIdMap)
  /\ \A r \in Rows : \A k \in 1..Len(r.updatedAssetPayload.elements) :
       LET el == r.updatedAssetPayload.elements[k]
       IN el.element.id = NEW_ELEMENT_ID =>
            /\ el.value = ExpectedRemap(ValueOf(r.sourceAsset, OLD_ELEMENT_ID), termIdMap)
            /\ \A n \in 1..Len(el.value) :
                 /\ el.value[n].id # Undefined
                 /\ el.value[n].id \in { targetTerms[t].id : t \in 1..Len(targetTerms) }
                 /\ el.value[n].id \notin { sourceTerms[t].id : t \in 1..Len(sourceTerms) }

\* A row whose source value has two entries, the first unmapped and the second mapped,
\* and whose payload carries the one remapped entry
C5_Witness ==
  \E r \in Rows :
    LET value == ValueOf(r.sourceAsset, OLD_ELEMENT_ID)
    IN /\ Len(value) = 2
       /\ value[1].id \notin DOMAIN termIdMap
       /\ value[2].id \in DOMAIN termIdMap
       /\ \E k \in 1..Len(r.updatedAssetPayload.elements) :
            r.updatedAssetPayload.elements[k]
              = Element(NEW_ELEMENT_ID, << [ id |-> termIdMap[value[2].id] ] >>)

\* The sequence seq rearranged by the permutation p of its indices
Permuted(seq, p) == [ i \in 1..Len(seq) |-> seq[p[i]] ]

\* C6: when the remap loop has run, a source asset was paired with a target asset
\* exactly when their codenames are equal, and the pairs are the same for every
\* order of either list; every row is such a pair; a source asset without such a
\* target asset is skipped with a warning and the run goes on.
C6_CodenamePairing ==
  /\ pc = "report" =>
       /\ Pairing(assetsSource, assetsTarget)
            = { p \in Range(assetsSource) \X Range(assetsTarget) :
                  p[1].codename = p[2].codename }
       /\ \A p \in Permutations(1..Len(assetsSource)) :
            \A q \in Permutations(1..Len(assetsTarget)) :
              Pairing(Permuted(assetsSource, p), Permuted(assetsTarget, q))
                = Pairing(assetsSource, assetsTarget)
  /\ \A r \in Rows :
       /\ r.sourceAsset.codename = r.targetAsset.codename
       /\ r.sourceAsset \in Range(assetsSource)
       /\ r.targetAsset \in Range(assetsTarget)
  /\ RemapDone =>
       \A i \in 1..Len(assetsSource) :
         (\A t \in 1..Len(assetsTarget) :
            assetsTarget[t].codename # assetsSource[i].codename)
         <=> (\E w \in 1..Len(warnings) :
                warnings[w] = [ kind |-> "no target asset", id |-> Undefined,
                                codename |-> assetsSource[i].codename ])

\* The first source asset has no target asset, the second is paired and has a row,
\* and the run has reached the prompt
C6_Witness ==
  /\ pc = "prompt"
  /\ Len(assetsSource) = 2
  /\ \A t \in 1..Len(assetsTarget) : assetsTarget[t].codename # assetsSource[1].codename
  /\ \E r \in Rows : r.sourceAsset = assetsSource[2]

\* C8 as written: for every row and every element of its source asset that has an
\* element of the same id on the target asset, the payload carries that element with
\* the source value remapped; source elements without one are not in the payload.
C8_EveryElementRemapped ==
  \A r \in Rows : \A k \in 1..Len(r.sourceAsset.elements) :
    LET el == r.sourceAsset.elements[k]
    IN IF HasElement(r.targetAsset, el.element.id)
       THEN ValueOf(r.updatedAssetPayload, el.element.id)
              = ExpectedRemap(el.value, termIdMap)
       ELSE ~HasElement(r.updatedAssetPayload, el.element.id)

\* C8, amended: one element id per environment is chosen once per run, the id of the
\* first element of the first asset of each list.  A row exists only for a source
\* asset whose element of the source id carries values, and every payload element of
\* the target id carries the target id with that value list remapped; no other
\* source element is remapped.
C8_SingleElementRemapped ==
  \A r \in Rows :
    LET oldId == assetsSource[1].elements[1].element.id
        newId == assetsTarget[1].elements[1].element.id
    IN /\ ValueOf(r.sourceAsset, oldId) # << >>
       /\ \A k \in 1..Len(r.updatedAssetPayload.elements) :
            r.targetAsset.elements[k].element.id = newId =>
              r.updatedAssetPayload.elements[k]
                = Element(newId, ExpectedRemap(ValueOf(r.sourceAsset, oldId), termIdMap))
       /\ \A k \in 1..Len(r.sourceAsset.elements) :
            LET el == r.sourceAsset.elements[k]
            IN (el.element.id # oldId /\ el.element.id # newId) =>
                 ValueOf(r.updatedAssetPayload, el.element.id)
                   = ValueOf(r.targetAsset, el.element.id)

\* A row whose source asset has a second element with values, the target asset has
\* an element of that id too, and the payload does not carry its remapped values
C8_Witness ==
  \E r \in Rows : \E k \in 1..Len(r.sourceAsset.elements) :
    LET el == r.sourceAsset.elements[k]
    IN /\ el.element.id # OLD_ELEMENT_ID
       /\ el.value # << >>
       /\ HasElement(r.targetAsset, el.element.id)
       /\ ValueOf(r.updatedAssetPayload, el.element.id)
            # ExpectedRemap(el.value, termIdMap)

\* The run ended with exit code 1 for another reason than a failed fetch or a
\* failed report write
EndedInRemapStage ==
  /\ pc = "exited"
  /\ exitCode = 1
  /\ console # << >>
  /\ console[Len(console)] \notin { Line("fatal", "fetch failed"),
                                    Line("fatal", "report failed") }

\* C9 as written: whatever was fetched, the run is never ended between the fetches
\* and the report generation.
C9_RemapStageNeverEnds == ~EndedInRemapStage

\* C9, amended: between the fetches and the report generation the run ends only
\* where the element ids are extracted, with exit code 1, when a list of assets is
\* empty or its first asset has no element; once the ids are extracted, an unmatched
\* source asset, a missing element or an unmapped term only adds a warning and the
\* run goes on to the report.
C9_OnlyExtractionEnds ==
  /\ EndedInRemapStage =>
       /\ \/ assetsSource = << >>
          \/ assetsTarget = << >>
          \/ assetsSource[1].elements = << >>
          \/ assetsTarget[1].elements = << >>
       /\ reportRows = << >>
       /\ warnings = << >>
  /\ RemapDone =>
       \A i \in 1..Len(assetsSource) :
         \A t \in 1..Len(assetsTarget) :
           assetsTarget[t].codename = assetsSource[i].codename =>
             LET value == ValueOf(assetsSource[i], OLD_ELEMENT_ID)
             IN \A n \in 1..Len(value) :
                  value[n].id \notin DOMAIN termIdMap =>
                    \E w \in 1..Len(warnings) :
                      warnings[w] = [ kind |-> "unmapped term", id |-> value[n].id,
                                      codename |-> assetsSource[i].codename ]

\* The prompt is reached with an unmatched source asset warned about and an
\* unmapped term of a paired asset warned about
C9_Witness ==
  /\ pc = "prompt"
  /\ \E w \in 1..Len(warnings) : warnings[w].kind = "no target asset"
  /\ \E w \in 1..Len(warnings) : warnings[w].kind = "unmapped term"

\* C10 as written: the payload equals the target asset outside `elements`, and its
\* elements are only the elements remapped in this pass.
C10_OnlyRemappedElements ==
  \A r \in Rows :
    /\ [ r.updatedAssetPayload EXCEPT !.elements = << >> ]
         = [ r.targetAsset EXCEPT !.elements = << >> ]
    /\ \A k \in 1..Len(r.updatedAssetPayload.elements) :
         r.updatedAssetPayload.elements[k]
           = Element(NEW_ELEMENT_ID,
                     ExpectedRemap(ValueOf(r.sourceAsset, OLD_ELEMENT_ID), termIdMap))

\* C10, amended: the payload equals the target asset outside `elements`, and its
\* elements are the target asset's elements, in order and with their ids, where
\* every element whose id is not the chosen target element id is kept unchanged.
C10_OtherElementsKept ==
  \A r \in Rows :
    /\ [ r.updatedAssetPayload EXCEPT !.elements = << >> ]
         = [ r.targetAsset EXCEPT !.elements = << >> ]
    /\ Len(r.updatedAssetPayload.elements) = Len(r.targetAsset.elements)
    /\ \A k \in 1..Len(r.targetAsset.elements) :
         /\ r.updatedAssetPayload.elements[k].element.id
              = r.targetAsset.elements[k].element.id
         /\ r.targetAsset.elements[k].element.id # NEW_ELEMENT_ID =>
              r.updatedAssetPayload.elements[k] = r.targetAsset.elements[k]

\* A row whose target asset has another element than the chosen one, with values,
\* and whose payload still carries it
C10_Witness ==
  \E r \in Rows : \E k \in 1..Len(r.targetAsset.elements) :
    /\ r.targetAsset.elements[k].element.id # NEW_ELEMENT_ID
    /\ r.targetAsset.elements[k].value # << >>
    /\ r.updatedAssetPayload.elements[k] = r.targetAsset.elements[k]
    /\ \E j \in 1..Len(r.updatedAssetPayload.elements) :
         r.updatedAssetPayload.elements[j] # r.targetAsset.elements[j]

\* The positions of the target terms that have the codename of the source term
CodenameMatches(sTerm, tTerms) ==
  { k \in 1..Len(tTerms) : tTerms[k].codename = sTerm.codename }

\* C11: once the term id map is built from the two flattened term lists (the terms
\* of each taxonomy in depth-first order), it has an entry exactly for the source
\* terms whose codename is, letter case included, the codename of some target term;
\* the entry is the id of the first such target term in flattened order; a source
\* term without such a target term has no entry; and building the map again from
\* the same two lists gives the same map.
C11_TermIdentityMap ==
  RemapDone =>
    /\ \A k \in 1..Len(sourceTerms) : sourceTerms[k].id = SourceTermIds[k]
    /\ \A k \in 1..Len(targetTerms) : targetTerms[k].id = TargetTermIds[k]
    /\ DOMAIN termIdMap \subseteq { sourceTerms[i].id : i \in 1..Len(sourceTerms) }
    /\ \A i \in 1..Len(sourceTerms) :
         LET matches == CodenameMatches(sourceTerms[i], targetTerms)
         IN IF matches = { }
            THEN sourceTerms[i].id \notin DOMAIN termIdMap
            ELSE /\ sourceTerms[i].id \in DOMAIN termIdMap
                 /\ termIdMap[sourceTerms[i].id]
                      = targetTerms[CHOOSE k \in matches : \A j \in matches : k <= j].id
    /\ termIdMap = BuildTermIdMap(sourceTerms, targetTerms)

\* The map is built from nested trees in which one source term has two target terms
\* of its codename and is mapped, and another source term differs from a target
\* term only in letter case and has no entry
C11_Witness ==
  /\ RemapDone
  /\ \E g \in 1..Len(taxonomyTargetRaw) : \E k \in 1..Len(taxonomyTargetRaw[g].terms) :
       taxonomyTargetRaw[g].terms[k].terms # << >>
  /\ \E i \in 1..Len(sourceTerms) :
       /\ Cardinality(CodenameMatches(sourceTerms[i], targetTerms)) = 2
       /\ sourceTerms[i].id \in DOMAIN termIdMap
  /\ \E i \in 1..Len(sourceTerms) :
       /\ sourceTerms[i].id \notin DOMAIN termIdMap
       /\ \E k \in 1..Len(targetTerms) :
            /\ targetTerms[k].codename # sourceTerms[i].codename
            /\ FoldCase(targetTerms[k].codename) = FoldCase(sourceTerms[i].codename)

\* C12: for every report row, the payload carries an element of the chosen target
\* element id whose value list is the remapped id list of the row's source asset,
\* and the pending names of the row, which the report shows, are the names of the
\* terms of that value list.
C12_PendingCarried ==
  \A i \in 1..Len(reportRows) :
    LET r == reportRows[i]
        remapped == NewValues(ValueOf(r.sourceAsset, OLD_ELEMENT_ID), termIdMap)
    IN /\ r.targetTaxonomyNamesPending = TaxonomyNames(remapped, targetTerms)
       /\ reportFile.written =>
            reportFile.rows[i].pending = r.targetTaxonomyNamesPending
       /\ \E k \in 1..Len(r.updatedAssetPayload.elements) :
            /\ r.updatedAssetPayload.elements[k].element.id = NEW_ELEMENT_ID
            /\ r.updatedAssetPayload.elements[k].value = remapped
====
